---- MODULE Spec2Model ----
(***************************************************************************)
(* Model of src/doc.rs: the HTML documentation generator (generate_html,   *)
(* function, type_, external_type, type_alias).                            *)
(*                                                                         *)
(* A Rust String is a sequence of one-character strings, a PathBuf is a    *)
(* sequence of components, a Vec is a sequence.                            *)
(***************************************************************************)
EXTENDS Integers, Sequences, FiniteSets, TLC

VARIABLES
    analysed,       \* &[Analysed]: the modules handed to generate_html
    failing_page,   \* the page whose template rendering fails (-1: none)
    files,          \* &mut Vec<OutputFile>: the caller's accumulator
    entry,          \* the accumulator as it was when the current run began
    pc,             \* position inside generate_html
    module_i,       \* position of the `for module in modules` loop
    runs,           \* number of runs of generate_html begun so far
    first_entry,    \* the accumulator at the beginning of the first run
    first_emitted,  \* the OutputFiles the first run appended
    statements,     \* module.ast.statements of the module being extracted
    functions,      \* ModuleTemplate.functions
    types,          \* ModuleTemplate.types
    phase           \* "input" before the extraction, "extracted" after

vars == <<analysed, failing_page, files, entry, pc, module_i, runs,
          first_entry, first_emitted, statements, functions, types, phase>>

siteVars == <<analysed, failing_page, files, entry, pc, module_i, runs,
              first_entry, first_emitted>>

declVars == <<statements, functions, types, phase>>

----------------------------------------------------------------------------
(* Bounds of the model. *)

MaxModules == 2
MaxSegments == 2
MaxRuns == 2
MaxStatements == 3
MaxArgs == 2

----------------------------------------------------------------------------
(* Strings. *)

Rep(c, n) == [k \in 1..n |-> c]

RECURSIVE Concat(_)
Concat(ss) == IF ss = <<>> THEN <<>> ELSE Head(ss) \o Concat(Tail(ss))

IsPrefix(p, s) == Len(p) <= Len(s) /\ SubSeq(s, 1, Len(p)) = p

\* the pieces of s between the occurrences of the character sep
RECURSIVE SplitOn(_, _)
SplitOn(s, sep) ==
    IF \A k \in 1..Len(s) : s[k] # sep
    THEN <<s>>
    ELSE LET p == CHOOSE k \in 1..Len(s) :
                      s[k] = sep /\ \A j \in 1..(k - 1) : s[j] # sep
         IN  <<SubSeq(s, 1, p - 1)>> \o SplitOn(SubSeq(s, p + 1, Len(s)), sep)

NL == "\n"

INDEX_HTML == <<"i", "n", "d", "e", "x", ".", "h", "t", "m", "l">>
INDEX_CSS == <<"i", "n", "d", "e", "x", ".", "c", "s", "s">>
README == <<"R", "E", "A", "D", "M", "E">>
PUB_EXTERNAL_TYPE ==
    <<"p", "u", "b", " ", "e", "x", "t", "e", "r", "n", "a", "l", " ",
      "t", "y", "p", "e", " ">>
PUB_TYPE == <<"p", "u", "b", " ", "t", "y", "p", "e", " ">>
EQUALS == <<" ", "=">>

\* a width one column short
MAX_COLUMNS_short == 65 - 1

MAX_COLUMNS == 65
INDENT == 2

----------------------------------------------------------------------------
(* The document-layout engine (crate::pretty) and format::wrap_args.       *)

nil == [t |-> "nil"]
to_doc(s) == [t |-> "text", s |-> s]
break_(broken, unbroken) == [t |-> "break", broken |-> broken, unbroken |-> unbroken]
line == [t |-> "break", broken |-> <<>>, unbroken |-> <<" ">>]
append(l, r) == [t |-> "cons", l |-> l, r |-> r]
nest(i, d) == [t |-> "nest", i |-> i, d |-> d]
group(d) == [t |-> "group", d |-> d]

RECURSIVE concat(_)
concat(ds) == IF ds = <<>> THEN nil ELSE append(Head(ds), concat(Tail(ds)))

\* whether the documents fit in `limit` columns up to the first line break
RECURSIVE fits(_, _)
fits(limit, docs) ==
    IF limit < 0 THEN FALSE
    ELSE IF docs = <<>> THEN TRUE
    ELSE LET indent == Head(docs)[1]
             mode == Head(docs)[2]
             d == Head(docs)[3]
             rest == Tail(docs)
         IN  CASE d.t = "nil" -> fits(limit, rest)
               [] d.t = "text" -> fits(limit - Len(d.s), rest)
               [] d.t = "break" ->
                    IF mode = "broken" THEN TRUE
                    ELSE fits(limit - Len(d.unbroken), rest)
               [] d.t = "cons" ->
                    fits(limit, <<<<indent, mode, d.l>>, <<indent, mode, d.r>>>> \o rest)
               [] d.t = "nest" -> fits(limit, <<<<indent + d.i, mode, d.d>>>> \o rest)
               [] d.t = "group" -> fits(limit, <<<<indent, mode, d.d>>>> \o rest)

RECURSIVE fmt(_, _, _)
fmt(limit, width, docs) ==
    IF docs = <<>> THEN <<>>
    ELSE LET indent == Head(docs)[1]
             mode == Head(docs)[2]
             d == Head(docs)[3]
             rest == Tail(docs)
         IN  CASE d.t = "nil" -> fmt(limit, width, rest)
               [] d.t = "text" -> d.s \o fmt(limit, width + Len(d.s), rest)
               [] d.t = "break" ->
                    IF mode = "broken"
                    THEN d.broken \o <<NL>> \o Rep(" ", indent) \o fmt(limit, indent, rest)
                    ELSE d.unbroken \o fmt(limit, width + Len(d.unbroken), rest)
               [] d.t = "cons" ->
                    fmt(limit, width, <<<<indent, mode, d.l>>, <<indent, mode, d.r>>>> \o rest)
               [] d.t = "nest" -> fmt(limit, width, <<<<indent + d.i, mode, d.d>>>> \o rest)
               [] d.t = "group" ->
                    IF fits(limit - width, <<<<indent, "flat", d.d>>>>)
                    THEN fmt(limit, width, <<<<indent, "flat", d.d>>>> \o rest)
                    ELSE fmt(limit, width, <<<<indent, "broken", d.d>>>> \o rest)

format(limit, doc) == fmt(limit, 0, <<<<0, "broken", doc>>>>)

\* the documents with `sep` between every two of them
RECURSIVE intersperse(_, _)
intersperse(xs, sep) ==
    IF Len(xs) <= 1 THEN xs
    ELSE <<Head(xs), sep>> \o intersperse(Tail(xs), sep)

wrap_args(args) ==
    IF args = <<>> THEN to_doc(<<"(", ")">>)
    ELSE group(append(to_doc(<<"(">>),
               append(nest(INDENT,
                           append(break_(<<>>, <<>>),
                                  concat(intersperse(args, break_(<<",">>, <<",", " ">>))))),
               append(break_(<<",">>, <<>>), to_doc(<<")">>)))))

type_ast(typ) == to_doc(typ)

----------------------------------------------------------------------------
(* src/doc.rs: the declarations of a module page.                          *)

\* Option<T> is a sequence of at most one element
None == <<>>
Some(x) == <<x>>

\* pulldown_cmark on a doc comment of plain words: one paragraph
render_markdown(text) ==
    IF text = <<>> THEN <<>>
    ELSE <<"<", "p", ">">> \o text \o <<"<", "/", "p", ">", NL>>

documentation(doc) == IF doc = None THEN <<>> ELSE render_markdown(doc[1])

\* external_type without the test for an empty parameter list
external_type_always_wrapping(name, args) ==
    format(MAX_COLUMNS,
           append(append(to_doc(PUB_EXTERNAL_TYPE), to_doc(name)),
                  wrap_args([k \in 1..Len(args) |-> to_doc(args[k])])))

external_type(name, args) ==
    format(MAX_COLUMNS,
           append(append(to_doc(PUB_EXTERNAL_TYPE), to_doc(name)),
                  IF args = <<>> THEN nil
                  ELSE wrap_args([k \in 1..Len(args) |-> to_doc(args[k])])))

type_alias(name, args, typ) ==
    format(MAX_COLUMNS,
           append(append(append(append(to_doc(PUB_TYPE), to_doc(name)),
                                IF args = <<>> THEN nil
                                ELSE wrap_args([k \in 1..Len(args) |-> to_doc(args[k])])),
                         to_doc(EQUALS)),
                  nest(INDENT, group(append(line, type_ast(typ))))))

\* function matching `Statement::Fn { name, doc, .. }`, any visibility
function_any_visibility(statement) ==
    CASE statement.kind = "ExternalFn" /\ statement.public ->
            Some([name |-> statement.name,
                  signature |-> <<>>,
                  documentation |-> documentation(statement.doc)])
      [] statement.kind = "Fn" ->
            Some([name |-> statement.name,
                  signature |-> <<>>,
                  documentation |-> documentation(statement.doc)])
      [] OTHER -> None

function(statement) ==
    CASE statement.kind = "ExternalFn" /\ statement.public ->
            Some([name |-> statement.name,
                  signature |-> <<>>,
                  documentation |-> documentation(statement.doc)])
      [] statement.kind = "Fn" /\ statement.public ->
            Some([name |-> statement.name,
                  signature |-> <<>>,
                  documentation |-> documentation(statement.doc)])
      [] OTHER -> None

type_(statement) ==
    CASE statement.kind = "ExternalType" /\ statement.public ->
            Some([name |-> statement.name,
                  definition |-> external_type(statement.name, statement.args),
                  documentation |-> documentation(statement.doc)])
      [] statement.kind = "CustomType" /\ statement.public ->
            Some([name |-> statement.name,
                  definition |-> <<>>,
                  documentation |-> documentation(statement.doc)])
      [] statement.kind = "TypeAlias" /\ statement.public ->
            Some([name |-> statement.name,
                  definition |-> type_alias(statement.name, statement.args, statement.typ),
                  documentation |-> documentation(statement.doc)])
      [] OTHER -> None

\* statements.iter().flat_map(function).collect()
RECURSIVE flat_map_function(_)
flat_map_function(ss) ==
    IF ss = <<>> THEN <<>> ELSE function(Head(ss)) \o flat_map_function(Tail(ss))

\* statements.iter().flat_map(type_).collect()
RECURSIVE flat_map_type_(_)
flat_map_type_(ss) ==
    IF ss = <<>> THEN <<>> ELSE type_(Head(ss)) \o flat_map_type_(Tail(ss))

----------------------------------------------------------------------------
(* src/doc.rs: generate_html.                                              *)

\* analysed.iter().filter(|m| m.origin == ModuleOrigin::Src)
\* analysed.iter() without the filter
modules_unfiltered(ms) == ms

RECURSIVE modules(_)
modules(ms) ==
    IF ms = <<>> THEN <<>>
    ELSE (IF Head(ms).origin = "Src" THEN <<Head(ms)>> ELSE <<>>) \o modules(Tail(ms))

\* name.join("/")
join(name, sep) == Concat(intersperse(name, sep))

\* the links in reverse order of the modules
modules_links_reversed(ms) ==
    [k \in 1..Len(modules(ms)) |->
        [path |-> join(modules(ms)[Len(modules(ms)) + 1 - k].name, <<"/">>),
         name |-> join(modules(ms)[Len(modules(ms)) + 1 - k].name, <<"/">>)]]

modules_links(ms) ==
    [k \in 1..Len(modules(ms)) |->
        [path |-> join(modules(ms)[k].name, <<"/">>),
         name |-> join(modules(ms)[k].name, <<"/">>)]]

pages == <<[name |-> README, path |-> <<>>]>>
links == <<>>

\* module.name.iter().map(|_| "..").intersperse("/").collect()
\* unnest without the separators
unnest_unseparated(name) == Concat([k \in 1..Len(name) |-> <<".", ".">>])

unnest(name) ==
    Concat(intersperse([k \in 1..Len(name) |-> <<".", ".">>], <<"/">>))

project_name == <<"p">>
dir == <<<<"d", "o", "c">>>>

PageTemplate(ms) ==
    [template |-> "documentation_page.html",
     unnest |-> <<".">>,
     links |-> links,
     pages |-> pages,
     modules |-> modules_links(ms),
     content |-> <<>>,
     project_name |-> project_name,
     page_title |-> project_name,
     project_version |-> <<>>]

ModuleTemplate(ms, module) ==
    [template |-> "documentation_module.html",
     unnest |-> unnest(module.name),
     links |-> links,
     pages |-> pages,
     module_name |-> join(module.name, <<"/">>),
     documentation |-> <<>>,
     modules |-> modules_links(ms),
     project_name |-> project_name,
     page_title |-> project_name,
     project_version |-> <<>>,
     functions |-> flat_map_function(module.ast.statements),
     types |-> flat_map_type_(module.ast.statements)]

\* the text a template renders to: the page with every field filled in
render(template) == [html |-> template]

\* whether rendering the page fails (page 0 is the README page, page k the
\* k-th module page), in which case gleam_expect aborts the run
gleam_expect_fails(page) == failing_page = page

\* PathBuf::push of a plain component
push_path(path, component) == Append(path, component)

\* path = dir.clone(); for segment in module.name { path.push(segment) };
\* path.push("index.html")
module_path(module) == push_path(dir \o module.name, INDEX_HTML)

\* files.push(OutputFile { path, text })
\* a push that skips a path the accumulator already holds
push_unless_present(fs, path, text) ==
    IF \E k \in 1..Len(fs) : fs[k].path = path
    THEN fs
    ELSE Append(fs, [path |-> path, text |-> text])

push(fs, path, text) == Append(fs, [path |-> path, text |-> text])

index_css == [asset |-> "templates/index.css"]

\* lines 21-51: the link lists and the README page
RenderReadme ==
    /\ pc = "start"
    /\ IF gleam_expect_fails(0)
       THEN /\ pc' = "aborted"
            /\ UNCHANGED <<files, module_i>>
       ELSE /\ files' = push(files, push_path(dir, INDEX_HTML),
                             render(PageTemplate(analysed)))
            /\ module_i' = 1
            /\ pc' = "modules"
    /\ UNCHANGED <<analysed, failing_page, entry, runs, first_entry, first_emitted>>
    /\ UNCHANGED declVars

\* lines 54-79: one iteration of the loop over the source modules
RenderModule ==
    /\ pc = "modules"
    /\ module_i <= Len(modules(analysed))
    /\ LET module == modules(analysed)[module_i]
       IN  IF gleam_expect_fails(module_i)
           THEN /\ pc' = "aborted"
                /\ UNCHANGED <<files, module_i>>
           ELSE /\ files' = push(files, module_path(module),
                                 render(ModuleTemplate(analysed, module)))
                /\ module_i' = module_i + 1
                /\ pc' = pc
    /\ UNCHANGED <<analysed, failing_page, entry, runs, first_entry, first_emitted>>
    /\ UNCHANGED declVars

\* lines 81-86: the static assets, and the return
RenderAssets ==
    /\ pc = "modules"
    /\ module_i > Len(modules(analysed))
    /\ files' = push(files, push_path(dir, INDEX_CSS), index_css)
    /\ pc' = "done"
    /\ first_emitted' = IF runs = 1
                        THEN SubSeq(files', Len(entry) + 1, Len(files'))
                        ELSE first_emitted
    /\ UNCHANGED <<analysed, failing_page, entry, module_i, runs, first_entry>>
    /\ UNCHANGED declVars

\* the caller runs generate_html again with the same project, modules and
\* directory, either on the accumulator it already holds or on a new one
\* that starts as the first one did
Rerun(fresh) ==
    /\ pc = "done"
    /\ runs < MaxRuns
    /\ files' = IF fresh THEN first_entry ELSE files
    /\ entry' = files'
    /\ pc' = "start"
    /\ runs' = runs + 1
    /\ UNCHANGED <<analysed, failing_page, module_i, first_entry, first_emitted>>
    /\ UNCHANGED declVars

\* lines 65-66 on one statement sequence
Extract ==
    /\ phase = "input"
    /\ functions' = flat_map_function(statements)
    /\ types' = flat_map_type_(statements)
    /\ phase' = "extracted"
    /\ UNCHANGED statements
    /\ UNCHANGED siteVars

----------------------------------------------------------------------------
(* Inputs. *)

SeqsUpTo(S, n) == UNION {[1..k -> S] : k \in 0..n}

Statement(kind, public, name, doc, args, typ) ==
    [kind |-> kind, public |-> public, name |-> name, doc |-> doc,
     args |-> args, typ |-> typ]

Kinds == {"Fn", "ExternalFn", "ExternalType", "CustomType", "TypeAlias", "Import"}
Docs == {None, Some(<<"d">>)}

\* the statements of the extraction: every kind, public or not; x has no
\* doc comment and y has one
Statements ==
    {Statement(kind, public, name,
               IF name = <<"x">> THEN None ELSE Some(<<"d">>),
               <<>>, <<"I", "n", "t">>) :
        kind \in Kinds \ {"Import"}, public \in BOOLEAN,
        name \in {<<"x">>, <<"y">>}}
    \cup {Statement("Import", FALSE, <<"m">>, None, <<>>, <<>>)}

\* the k-th type parameter, n characters long
Arg(k, n) == <<<<"a", "b", "c", "d">>[k]>> \o Rep("x", n - 1)

ArgLens == {1, 20, 21}
NameLens == {1, 2}
TypLens == {3, 50, 51}

Argss == UNION {{[k \in 1..n |-> Arg(k, lens[k])] : lens \in [1..n -> ArgLens]} :
                n \in 0..MaxArgs}

\* the statements of the signature formatter: names and type parameters of
\* lengths on both sides of the 65 columns
SignatureStatements ==
    {Statement("ExternalType", TRUE, <<"T">> \o Rep("y", n - 1), None, args, <<>>) :
        n \in NameLens, args \in Argss}
    \cup {Statement("TypeAlias", TRUE, <<"T">> \o Rep("y", n - 1), None, args,
                    <<"U">> \o Rep("z", t - 1)) :
        n \in NameLens, args \in Argss, t \in TypLens}
    \cup {Statement(kind, TRUE, <<"x">>, doc, <<>>, <<>>) :
        kind \in {"Fn", "ExternalFn", "CustomType"}, doc \in Docs}

Segments == {<<"a">>, <<"b", "c">>}

\* the module names: no segment at all, or a first segment followed by up
\* to MaxSegments - 1 segments "a"
Names ==
    {<<>>} \cup {<<s>> \o Rep(<<"a">>, k) : s \in Segments, k \in 0..(MaxSegments - 1)}

\* the statements of every module of a site
ModuleBody ==
    <<Statement("Fn", TRUE, <<"f">>, Some(<<"d">>), <<>>, <<>>),
      Statement("CustomType", FALSE, <<"P">>, None, <<>>, <<>>),
      Statement("ExternalType", TRUE, <<"O">>, None, <<<<"a">>>>, <<>>)>>

Analysed ==
    [name : Names, origin : {"Src", "Dependency"},
     ast : [statements : {ModuleBody}]]

\* what the caller has put in the accumulator before (the compiled Erlang)
PriorFiles ==
    {<<>>, <<[path |-> <<<<"g", "e", "n">>, <<"a", ".", "e", "r", "l">>>>,
              text |-> [erlang |-> <<"a">>]]>>}

Init ==
    /\ analysed \in SeqsUpTo(Analysed, MaxModules)
    /\ failing_page \in -1..MaxModules
    /\ files \in PriorFiles
    /\ entry = files
    /\ first_entry = files
    /\ first_emitted = <<>>
    /\ pc = "start"
    /\ module_i = 0
    /\ runs = 1
    /\ statements = <<>>
    /\ functions = <<>>
    /\ types = <<>>
    /\ phase = "idle"

Next ==
    \/ RenderReadme
    \/ RenderModule
    \/ RenderAssets
    \/ \E fresh \in BOOLEAN : Rerun(fresh)

Spec == Init /\ [][Next]_vars

InitDecl(pool, n) ==
    /\ analysed = <<>>
    /\ failing_page = -1
    /\ files = <<>>
    /\ entry = <<>>
    /\ first_entry = <<>>
    /\ first_emitted = <<>>
    /\ pc = "idle"
    /\ module_i = 0
    /\ runs = 0
    /\ statements \in SeqsUpTo(pool, n)
    /\ functions = <<>>
    /\ types = <<>>
    /\ phase = "input"

InitExtract == InitDecl(Statements, MaxStatements)

NextExtract == Extract

SpecExtract == InitExtract /\ [][NextExtract]_vars

InitSignature == InitDecl(SignatureStatements, 1)

NextSignature == Extract

SpecSignature == InitSignature /\ [][NextSignature]_vars

----------------------------------------------------------------------------
(* Properties. *)

\* the OutputFiles the current run has appended so far
emitted == SubSeq(files, Len(entry) + 1, Len(files))

\* the k-th smallest element of a set of numbers
KthOf(S, k) == CHOOSE i \in S : Cardinality({j \in S : j < i}) = k - 1

SrcIndices == {i \in 1..Len(analysed) : analysed[i].origin = "Src"}
SrcCount == Cardinality(SrcIndices)
SrcModule(k) == analysed[KthOf(SrcIndices, k)]

\* the module pages the current run has appended: positions 2..SrcCount+1
ModulePages == {j \in 2..(SrcCount + 1) : j <= Len(emitted)}

FnIndices ==
    {i \in 1..Len(statements) :
        statements[i].public /\ statements[i].kind \in {"Fn", "ExternalFn"}}
TypeIndices ==
    {i \in 1..Len(statements) :
        statements[i].public
        /\ statements[i].kind \in {"ExternalType", "CustomType", "TypeAlias"}}

NoPathTwice(fs) ==
    \A i, j \in 1..Len(fs) : i # j => fs[i].path # fs[j].path

RECURSIVE SumLen(_)
SumLen(ss) == IF ss = <<>> THEN 0 ELSE Len(Head(ss)) + SumLen(Tail(ss))

\* C1: the functions and types of a module page are exactly the public
\* Fn/ExternalFn and the public ExternalType/CustomType/TypeAlias statements,
\* each once, in source order, with the statement's name and doc comment;
\* nothing else appears and no statements give no declarations.
C1_VisibilityFilter ==
    phase = "extracted" =>
        /\ Len(functions) = Cardinality(FnIndices)
        /\ Len(types) = Cardinality(TypeIndices)
        /\ \A k \in 1..Len(functions) :
              LET st == statements[KthOf(FnIndices, k)]
              IN  /\ functions[k].name = st.name
                  /\ (functions[k].documentation = <<>>) <=> (st.doc = None)
        /\ \A k \in 1..Len(types) :
              LET st == statements[KthOf(TypeIndices, k)]
              IN  /\ types[k].name = st.name
                  /\ (types[k].documentation = <<>>) <=> (st.doc = None)
        /\ (statements = <<>> => functions = <<>> /\ types = <<>>)

\* three statements: one gives a function, one a type, one is left out
C1_Witness ==
    /\ phase = "extracted"
    /\ Len(statements) = 3
    /\ Len(functions) = 1
    /\ Len(types) = 1
    /\ \E i \in 1..3 : ~statements[i].public /\ statements[i].kind = "Fn"

\* C2: when the module names are pairwise distinct, no two OutputFiles of
\* one run have the same path.
C2_PathUniqueness ==
    (\A i, j \in 1..Len(analysed) : i # j => analysed[i].name # analysed[j].name)
        => NoPathTwice(emitted)

\* C3: when a page fails to render the run aborts and the accumulator holds
\* no file of the run.
C3_NoPartialResult ==
    pc = "aborted" => files = entry

\* C4: the loop never gets past a source module whose name has no segment.
C4_ZeroSegmentRejected ==
    \A k \in 1..SrcCount :
        SrcModule(k).name = <<>> => ~(pc \in {"modules", "done"} /\ module_i > k)

\* C5: the unnest of the page of a module of k >= 1 segments is k ".."
\* separated by "/", k being the number of directories between the root and
\* the page; the unnest of the root page is ".".
C5_UnnestDepth ==
    /\ Len(emitted) >= 1 => emitted[1].text.html.unnest = <<".">>
    /\ \A j \in ModulePages :
          LET k == Len(SrcModule(j - 1).name)
          IN  k >= 1 =>
                /\ SplitOn(emitted[j].text.html.unnest, "/") = Rep(<<".", ".">>, k)
                /\ Len(emitted[j].path) - Len(dir) - 1 = k

\* the page of a module of two segments has been appended
C5_Witness ==
    \E j \in ModulePages :
        /\ Len(SrcModule(j - 1).name) = 2
        /\ emitted[j].text.html.unnest = <<".", ".", "/", ".", ".">>

\* C6: a run that returns has appended n + 2 OutputFiles, n being the number
\* of Src modules: <dir>/index.html, the page of every Src module in order
\* at <dir>/<segments>/index.html, and <dir>/index.css.
C6_ArtifactSequence ==
    pc = "done" =>
        /\ Len(files) = Len(entry) + SrcCount + 2
        /\ SubSeq(files, 1, Len(entry)) = entry
        /\ emitted[1].path = dir \o <<INDEX_HTML>>
        /\ \A k \in 1..SrcCount :
              emitted[k + 1].path = dir \o SrcModule(k).name \o <<INDEX_HTML>>
        /\ emitted[SrcCount + 2].path = dir \o <<INDEX_CSS>>

\* a run over a dependency followed by a source module has returned
C6_Witness ==
    /\ pc = "done"
    /\ Len(analysed) = 2
    /\ analysed[1].origin = "Dependency"
    /\ analysed[2].origin = "Src"
    /\ Len(analysed[2].name) = 2
    /\ Len(emitted) = 3

\* C7: every page gets one Link per Src module, in the order supplied, name
\* and path being the segments joined by "/"; pages is the single README
\* link and links is empty.
C7_NavigationLinks ==
    \A j \in {1} \cup ModulePages :
        j <= Len(emitted) =>
            LET ctx == emitted[j].text.html
            IN  /\ ctx.pages = <<[name |-> README, path |-> <<>>]>>
                /\ ctx.links = <<>>
                /\ Len(ctx.modules) = SrcCount
                /\ \A k \in 1..SrcCount :
                      /\ ctx.modules[k].name = ctx.modules[k].path
                      /\ IF SrcModule(k).name = <<>>
                         THEN ctx.modules[k].name = <<>>
                         ELSE SplitOn(ctx.modules[k].name, "/") = SrcModule(k).name

\* two source modules supplied out of alphabetical order, both pages done
C7_Witness ==
    /\ pc = "done"
    /\ SrcCount = 2
    /\ SrcModule(1).name = <<<<"b", "c">>, <<"a">>>>
    /\ SrcModule(2).name = <<<<"a">>>>
    /\ emitted[3].text.html.modules[1].name = <<"b", "c", "/", "a">>

C9_SignatureByKind ==
    phase = "extracted" =>
        /\ \A k \in 1..Len(functions) : functions[k].signature = <<>>
        /\ \A k \in 1..Len(types) :
              LET st == statements[KthOf(TypeIndices, k)]
                  def == types[k].definition
              IN  CASE st.kind = "CustomType" -> def = <<>>
                    [] st.kind = "ExternalType" ->
                         /\ def # <<>>
                         /\ IsPrefix(PUB_EXTERNAL_TYPE \o st.name, def)
                         /\ st.args = <<>> =>
                               /\ def = PUB_EXTERNAL_TYPE \o st.name
                               /\ \A p \in 1..Len(def) : def[p] # "("
                    [] st.kind = "TypeAlias" ->
                         /\ def # <<>>
                         /\ IsPrefix(PUB_TYPE \o st.name, def)
                         /\ \E p \in (Len(PUB_TYPE \o st.name) + 1)..Len(def) :
                               /\ p + 1 <= Len(def) - Len(st.typ)
                               /\ SubSeq(def, p, p + 1) = EQUALS
                               /\ SubSeq(def, Len(def) - Len(st.typ) + 1, Len(def))
                                     = st.typ

\* an external type without type parameters has been rendered
C9_Witness ==
    /\ phase = "extracted"
    /\ Len(statements) = 1
    /\ statements[1].kind = "ExternalType"
    /\ statements[1].args = <<>>
    /\ Len(types) = 1
    /\ types[1].definition = PUB_EXTERNAL_TYPE \o <<"T">>

\* the flat rendering of an external type with type parameters
FlatWidth(st) ==
    Len(PUB_EXTERNAL_TYPE) + Len(st.name) + 2
        + SumLen(st.args) + 2 * (Len(st.args) - 1)

\* C10: an external type with type parameters is on one line when its flat
\* rendering fits in 65 columns, and otherwise has every parameter on a
\* line of its own, indented by two columns and followed by a comma.
C10_WrapAllOrNothing ==
    phase = "extracted" =>
        \A k \in 1..Len(types) :
            LET st == statements[KthOf(TypeIndices, k)]
                def == types[k].definition
                ls == SplitOn(def, NL)
                n == Len(st.args)
            IN  (st.kind = "ExternalType" /\ n >= 1) =>
                    IF FlatWidth(st) <= 65
                    THEN /\ Len(ls) = 1
                         /\ Len(def) = FlatWidth(st)
                         /\ def[Len(def)] = ")"
                    ELSE /\ Len(ls) = n + 2
                         /\ ls[1] = PUB_EXTERNAL_TYPE \o st.name \o <<"(">>
                         /\ \A a \in 1..n :
                               ls[a + 1] = <<" ", " ">> \o st.args[a] \o <<",">>
                         /\ ls[n + 2] = <<")">>

\* an external type of two parameters, 66 columns flat, has been wrapped
C10_Witness ==
    /\ phase = "extracted"
    /\ Len(statements) = 1
    /\ statements[1].kind = "ExternalType"
    /\ Len(statements[1].args) = 2
    /\ FlatWidth(statements[1]) = 66
    /\ Len(types) = 1
    /\ Len(SplitOn(types[1].definition, NL)) = 4

====
